---- MODULE Spec2Model ----
(***************************************************************************)
(* pi-poster-designer: the design_poster tool (src/index.ts), its provider *)
(* registry (getProvider and the create*Provider factories), the provider  *)
(* adapters' generate() and OpenAI's mapSize.                              *)
(*                                                                         *)
(* JavaScript runs a handler to completion between awaits.  execute() has  *)
(* one await, the provider call, so an invocation is modelled by two       *)
(* actions: Execute (entry up to the first await or return) and Settle     *)
(* (the awaited call settles; the handler runs on to the next await or to  *)
(* its return).  The order of the effects inside one such run is kept in   *)
(* the variable log.                                                       *)
(***************************************************************************)
EXTENDS Integers, Sequences, FiniteSets, TLC

(* ------------------------------ bounds -------------------------------- *)

\* longest `styles` argument tried
MaxReq == 2
\* longest eventInfo tried with `$` patterns, in tokens
MaxInfo == 2
\* mapSize is tried on every width and height in 1..MaxDim (and on SampleDims)
MaxDim == 12

(* ------------------- values of the JavaScript runtime ------------------ *)

\* `undefined` for an optional string (a parameter, an environment variable)
Undefined == "<undefined>"
\* `null`, the unavailable provider
Null == [null |-> TRUE]

Truthy(s) == s # Undefined /\ s # ""

Range(s) == {s[k] : k \in 1..Len(s)}

\* Array.prototype.filter is SelectSeq; Array.prototype.map:
Map(s, F(_)) == [k \in 1..Len(s) |-> F(s[k])]

(* ------------------------------ config.ts ------------------------------ *)

\* display names are written in ASCII here; promptTemplate is identified by
\* the style it belongs to
styles ==
    << [id |-> "tjc-style",         name |-> "TJC style"],
       [id |-> "christian-general", name |-> "General Christian style"],
       [id |-> "creative-free",     name |-> "Creative free style"] >>

defaultSize == [width |-> 2480, height |-> 3508, name |-> "A4 (300dpi)"]

sizes ==
    [k \in {"a4", "a4-landscape", "instagram", "instagram-story", "facebook"} |->
        CASE k = "a4"              -> [width |-> 2480, height |-> 3508, name |-> "A4 (300dpi)"]
          [] k = "a4-landscape"    -> [width |-> 3508, height |-> 2480, name |-> "A4 Landscape"]
          [] k = "instagram"       -> [width |-> 1080, height |-> 1080, name |-> "Instagram Square"]
          [] k = "instagram-story" -> [width |-> 1080, height |-> 1920, name |-> "Instagram Story"]
          [] k = "facebook"        -> [width |-> 1200, height |-> 630,  name |-> "Facebook Post"]]

defaultProvider == "gemini"

ProviderIds == {"gemini", "nano-banana-pro", "grok", "openai"}

providers ==
    [p \in ProviderIds |->
        CASE p = "gemini"          -> [apiKeyEnv |-> "GEMINI_API_KEY", enabled |-> TRUE,
                                       defaultModel |-> "gemini-2.5-flash-image"]
          [] p = "nano-banana-pro" -> [apiKeyEnv |-> "GEMINI_API_KEY", enabled |-> TRUE,
                                       defaultModel |-> "nano-banana-pro"]
          [] p = "grok"            -> [apiKeyEnv |-> "GROK_API_KEY", enabled |-> TRUE,
                                       defaultModel |-> "grok-2-image"]
          [] p = "openai"          -> [apiKeyEnv |-> "OPENAI_API_KEY", enabled |-> TRUE,
                                       defaultModel |-> "dall-e-3"]]

defaultConfig ==
    [defaultSize |-> defaultSize, sizes |-> sizes, styles |-> styles,
     defaultProvider |-> defaultProvider, providers |-> providers]

\* the Config values tried: defaultConfig with any of the `enabled` flags
\* of its provider descriptors cleared
ConfigsWithEnabled ==
    {[defaultConfig EXCEPT !.providers =
        [p \in ProviderIds |-> [providers[p] EXCEPT !.enabled = en[p]]]] :
     en \in [ProviderIds -> BOOLEAN]}

(* ----------------------- process.env and factories --------------------- *)

EnvVars == {"GEMINI_API_KEY", "GROK_API_KEY", "XAI_API_KEY", "OPENAI_API_KEY"}

\* a variable is unset, set to the empty string, or set to a key
EnvValues == {Undefined, "", "sk-key"}

\* `a || b` on optional strings
OrElse(a, b) == IF Truthy(a) THEN a ELSE b

\* the two GeminiProvider sources differ in the constructor's default model
GeminiCtorDefaults == {"gemini-2.5-flash-image", "gemini-2.0-flash-exp-image-generation"}

createGeminiProvider(e, ctorModel) ==
    LET apiKey == e["GEMINI_API_KEY"]
    IN  IF ~Truthy(apiKey) THEN Null
        ELSE [name |-> "gemini", apiKey |-> apiKey, model |-> ctorModel]

createNanaBananaProProvider(e) ==
    LET apiKey == e["GEMINI_API_KEY"]
    IN  IF ~Truthy(apiKey) THEN Null
        ELSE [name |-> "nano-banana-pro", apiKey |-> apiKey,
              model |-> "gemini-3-pro-image-preview"]

createGrokProvider(e) ==
    LET apiKey == OrElse(e["GROK_API_KEY"], e["XAI_API_KEY"])
    IN  IF ~Truthy(apiKey) THEN Null
        ELSE [name |-> "grok", apiKey |-> apiKey, model |-> "grok-2-image"]

createOpenAIProvider(e) ==
    LET apiKey == e["OPENAI_API_KEY"]
    IN  IF ~Truthy(apiKey) THEN Null
        ELSE [name |-> "openai", apiKey |-> apiKey, model |-> "dall-e-3"]

\* config.providers[name] is truthy and its `enabled` is truthy.  A name
\* that is no own key of the object but a property of Object.prototype
\* ("constructor") reads a truthy value without `enabled`.
ProviderUsable(name, cfg) ==
    /\ name \in DOMAIN cfg.providers
    /\ cfg.providers[name].enabled

\* getProvider without the `enabled` test
getProviderIgnoresEnabled(name, cfg, e, ctorModel) ==
    IF name \notin DOMAIN cfg.providers THEN Null
    ELSE CASE name = "gemini"          -> createGeminiProvider(e, ctorModel)
           [] name = "nano-banana-pro" -> createNanaBananaProProvider(e)
           [] name = "grok"            -> createGrokProvider(e)
           [] name = "openai"          -> createOpenAIProvider(e)
           [] OTHER                    -> Null

getProvider(name, cfg, e, ctorModel) ==
    IF ~ProviderUsable(name, cfg) THEN Null
    ELSE CASE name = "gemini"          -> createGeminiProvider(e, ctorModel)
           [] name = "nano-banana-pro" -> createNanaBananaProProvider(e)
           [] name = "grok"            -> createGrokProvider(e)
           [] name = "openai"          -> createOpenAIProvider(e)
           [] OTHER                    -> Null

(* ------------------------- provider adapters --------------------------- *)

\* mapSize with the thresholds included in the wide and tall buckets
mapSizeInclusive(width, height) ==
    IF width < 0 \/ height < 0 THEN "1024x1024"
    ELSE IF 2 * width >= 3 * height THEN "1792x1024"
    ELSE IF 100 * width <= 67 * height THEN "1024x1792"
    ELSE "1024x1024"

\* OpenAIProvider.mapSize.  ratio = width / height is compared with 1.5 and
\* 0.67 in IEEE doubles; for integers below 2^26 the quotient is further
\* from either threshold than a rounding error unless it equals it, and
\* 67/100 rounds to the literal 0.67, so the comparisons are those of the
\* exact fractions: w/h > 3/2 and w/h < 67/100.  An undefined dimension
\* (written -1) makes the ratio NaN, and every comparison with NaN is false.
mapSize(width, height) ==
    IF width < 0 \/ height < 0 THEN "1024x1024"
    ELSE IF 2 * width > 3 * height THEN "1792x1024"
    ELSE IF 100 * width < 67 * height THEN "1024x1792"
    ELSE "1024x1024"

\* Buffer.from(s, "base64") on the payloads tried: padding alone decodes to
\* no bytes
Base64Decode(s) ==
    CASE s = "aGk=" -> <<104, 105>>
      [] OTHER      -> <<>>

\* Buffer.prototype.toString("base64")
Base64Encode(bytes) ==
    IF bytes = <<>> THEN "" ELSE "aGk="

VARIABLE clock      \* the system clock: milliseconds since its first reading

\* Date.now() rendered in a template string
DateNow == ToString(clock)

Threw(msg) == [threw |-> TRUE, message |-> msg]

Image(b64, mime) ==
    [threw |-> FALSE,
     image |-> [data |-> Base64Decode(b64), mimeType |-> mime,
                filename |-> "poster-" \o DateNow \o ".png"]]

\* what the vendor answers to one request: HTTP status and body, whether
\* the candidates / data array has an entry, and that entry's base64 field
\* and mime type
Responses ==
    { [ok |-> FALSE, status |-> "500", text |-> "upstream failed", hasEntries |-> FALSE,
       b64 |-> Undefined, mimeType |-> Undefined],
      [ok |-> TRUE, status |-> "200", text |-> "", hasEntries |-> FALSE,
       b64 |-> Undefined, mimeType |-> Undefined],
      [ok |-> TRUE, status |-> "200", text |-> "", hasEntries |-> TRUE,
       b64 |-> "", mimeType |-> Undefined],
      [ok |-> TRUE, status |-> "200", text |-> "", hasEntries |-> TRUE,
       b64 |-> "====", mimeType |-> Undefined],
      [ok |-> TRUE, status |-> "200", text |-> "", hasEntries |-> TRUE,
       b64 |-> "aGk=", mimeType |-> "image/jpeg"] }

\* GeminiProvider.generate and NanaBananaProProvider.generate after fetch
GeminiGenerate(label, resp) ==
    IF ~resp.ok
    THEN Threw(label \o " API error: " \o resp.status \o " - " \o resp.text)
    ELSE IF ~resp.hasEntries
    THEN Threw("No candidates in " \o label \o " response")
    ELSE IF Truthy(resp.b64)
    THEN Image(resp.b64, OrElse(resp.mimeType, "image/png"))
    ELSE Threw("No image data found in " \o label \o " response")

\* GrokProvider.generate and OpenAIProvider.generate after fetch
DataArrayGenerate(label, resp) ==
    IF ~resp.ok
    THEN Threw(label \o " API error: " \o resp.status \o " - " \o resp.text)
    ELSE IF ~resp.hasEntries
    THEN Threw("No image data in " \o label \o " response")
    ELSE IF resp.b64 = Undefined
    THEN Threw("The first argument must be of type string")
    ELSE Image(resp.b64, "image/png")

\* imageProvider.generate(request), given the vendor's answer
generate(adapter, resp) ==
    CASE adapter.name = "gemini"          -> GeminiGenerate("Gemini", resp)
      [] adapter.name = "nano-banana-pro" -> GeminiGenerate("Nano Banana Pro", resp)
      [] adapter.name = "grok"            -> DataArrayGenerate("Grok", resp)
      [] adapter.name = "openai"          -> DataArrayGenerate("OpenAI", resp)

\* the request an adapter puts on the wire: only OpenAI sends a size
WireRequest(adapter, request) ==
    [provider |-> adapter.name, apiKey |-> adapter.apiKey, model |-> adapter.model,
     prompt |-> request.prompt, style |-> request.style,
     size |-> IF adapter.name = "openai"
              THEN mapSize(request.width, request.height) ELSE Undefined]

(* ------------------------ design_poster: execute ----------------------- *)

VARIABLES
    env,            \* process.env
    config,         \* the Config the extension runs with
    params,         \* the tool call's arguments
    hasOnUpdate,    \* whether the host passed an onUpdate callback
    aborted,        \* signal.aborted
    pc,             \* "idle", "await" (a provider call is in flight), "done"
    stylesToUse,
    imageProvider,
    i,              \* the loop index of the style in flight
    results,
    dirs,           \* directories created by mkdirSync
    files,          \* files written by writeFileSync
    log,            \* the handler's effects, in program order
    ret,            \* the value execute() returned
    msWidth, msHeight, msSize,  \* mapSize applied on its own
    inv,            \* the locals of each of several execute() calls in flight
    fslog           \* the mkdirSync and writeFileSync calls of those, in order

vars == <<env, config, params, hasOnUpdate, aborted, pc, stylesToUse, imageProvider,
          i, results, dirs, files, log, ret, msWidth, msHeight, msSize,
          clock, inv, fslog>>

NoReturn == [pending |-> TRUE]

\* config.sizes is an object literal: a key that is not its own is looked up
\* on Object.prototype.  "constructor" reads the function Object and
\* "toString" the function toString: truthy values whose `name` is the
\* function's name and whose `width` and `height` are undefined (written -1).
InheritedKeys == {"constructor", "toString"}

inheritedProperty(key) ==
    [width |-> -1, height |-> -1,
     name |-> IF key = "constructor" THEN "Object" ELSE key]

\* config.sizes[size || "a4"] || config.defaultSize
sizeConfig(cfg, size) ==
    LET sizeKey == OrElse(size, "a4")
    IN  IF sizeKey \in DOMAIN cfg.sizes THEN cfg.sizes[sizeKey]
        ELSE IF sizeKey \in InheritedKeys THEN inheritedProperty(sizeKey)
        ELSE cfg.defaultSize

\* selection that walks the request instead of the catalog: caller order,
\* a repeated id selected again
selectStylesKeepsDuplicates(cfg, requested) ==
    IF requested.present
    THEN Map(SelectSeq(requested.ids,
                       LAMBDA id : \E k \in 1..Len(cfg.styles) : cfg.styles[k].id = id),
             LAMBDA id : cfg.styles[CHOOSE k \in 1..Len(cfg.styles) : cfg.styles[k].id = id])
    ELSE cfg.styles

\* selection that takes an empty list for an omitted one
selectStylesEmptyMeansAll(cfg, requested) ==
    IF requested.present /\ requested.ids # <<>>
    THEN SelectSeq(cfg.styles, LAMBDA s : s.id \in Range(requested.ids))
    ELSE cfg.styles

RECURSIVE firstOccurrences(_)
firstOccurrences(s) ==
    IF s = <<>> THEN <<>>
    ELSE LET front == firstOccurrences(SubSeq(s, 1, Len(s) - 1))
             last  == s[Len(s)]
         IN  IF last \in Range(front) THEN front ELSE Append(front, last)

\* selection in the caller's order, each id once
selectStylesCallerOrder(cfg, requested) ==
    IF requested.present
    THEN selectStylesKeepsDuplicates(cfg,
             [present |-> TRUE, ids |-> firstOccurrences(requested.ids)])
    ELSE cfg.styles

\* requestedStyles ? config.styles.filter(s => requestedStyles.includes(s.id))
\*                 : config.styles            (an empty array is truthy)
selectStyles(cfg, requested) ==
    IF requested.present
    THEN SelectSeq(cfg.styles, LAMBDA s : s.id \in Range(requested.ids))
    ELSE cfg.styles

\* Strings that are searched or substituted are sequences of tokens: a token
\* is one character that String.prototype.replace treats specially, the
\* placeholder, or a run of other text.

\* style.promptTemplate: every template of config.ts is its own text
\* followed by the placeholder
promptTemplate(style) == <<"text of " \o style.id, "{eventInfo}">>

\* GetSubstitution for a string pattern: in the replacement `$$` is `$`,
\* `$&` the matched text, `` $` `` the text before the match, `$'` the text
\* after it; any other `$` stands for itself
RECURSIVE getSubstitution(_, _, _, _)
getSubstitution(replacement, matched, before, after) ==
    IF replacement = <<>> THEN <<>>
    ELSE IF replacement[1] = "$" /\ Len(replacement) >= 2
                                /\ replacement[2] \in {"$", "&", "`", "'"}
    THEN (CASE replacement[2] = "$" -> <<"$">>
            [] replacement[2] = "&" -> matched
            [] replacement[2] = "`" -> before
            [] replacement[2] = "'" -> after)
         \o getSubstitution(SubSeq(replacement, 3, Len(replacement)),
                            matched, before, after)
    ELSE <<replacement[1]>> \o getSubstitution(Tail(replacement), matched, before, after)

\* String.prototype.replace(pattern, replacement) with a string pattern:
\* the first occurrence only
replace(str, pattern, replacement) ==
    IF pattern \notin Range(str) THEN str
    ELSE LET at     == CHOOSE k \in 1..Len(str) :
                           /\ str[k] = pattern
                           /\ \A j \in 1..(k - 1) : str[j] # pattern
             before == SubSeq(str, 1, at - 1)
             after  == SubSeq(str, at + 1, Len(str))
         IN  before \o getSubstitution(replacement, <<pattern>>, before, after) \o after

\* style.promptTemplate.replace("{eventInfo}", eventInfo)
buildPrompt(style, eventInfo) == replace(promptTemplate(style), "{eventInfo}", eventInfo)

outputDirOf == "/tmp/poster-designer/" \o DateNow

outputPath(dir, style, image) == dir \o "/" \o style.id \o "-" \o image.filename

successOutcome(style, path, image) ==
    [style |-> style.id, styleName |-> style.name, path |-> path, success |-> TRUE,
     imageData |-> Base64Encode(image.data), mimeType |-> image.mimeType]

failedOutcome(style, errorMsg) ==
    [style |-> style.id, styleName |-> style.name, path |-> "", success |-> FALSE,
     error |-> errorMsg]

\* results.map(({ imageData, ...rest }) => rest)
withoutImageData(r) ==
    IF r.success
    THEN [style |-> r.style, styleName |-> r.styleName, path |-> r.path,
          success |-> r.success, mimeType |-> r.mimeType]
    ELSE r

\* the image blocks pushed after the summary: one per successful outcome
\* whose imageData and mimeType are truthy
imageBlocks(successful) ==
    Map(SelectSeq(successful, LAMBDA r : Truthy(r.imageData) /\ Truthy(r.mimeType)),
        LAMBDA r : [type |-> "image", data |-> r.imageData, mimeType |-> r.mimeType])

\* the summary text, kept as its parts
summaryOf(size, successful, failed) ==
    [sizeName |-> size.name,
     successCount |-> Len(successful),
     posters |-> Map(successful, LAMBDA r : <<r.styleName, r.path>>),
     failedCount |-> Len(failed),
     failures |-> Map(failed, LAMBDA r : <<r.styleName, r.error>>)]

\* the value returned after the loop
buildResult(size, dir, res) ==
    LET successful == SelectSeq(res, LAMBDA r : r.success)
        failed     == SelectSeq(res, LAMBDA r : ~r.success)
    IN  [content |-> <<[type |-> "text", text |-> summaryOf(size, successful, failed)]>>
                     \o imageBlocks(successful),
         details |-> [outputDir |-> dir, size |-> size,
                      results |-> Map(res, withoutImageData),
                      successful |-> Len(successful), failed |-> Len(failed)]]

noStylesResult ==
    [content |-> <<[type |-> "text", text |-> "no matching style"]>>,
     details |-> [error |-> "No matching styles found"]]

noProviderResult(providerName) ==
    [content |-> <<[type |-> "text", text |-> "provider not available: " \o providerName]>>,
     details |-> [error |-> "Provider " \o providerName \o " not available"]]

\* an iteration that notifies after it has started the call
iterationEffectsNotifyLate(sel, idx, eventInfo, size, adapter, onUpdate, ab) ==
    LET style  == sel[idx + 1]
        update == [ev |-> "update", progress |-> idx + 1, total |-> Len(sel),
                   style |-> style.id, styleName |-> style.name]
        request == [prompt |-> buildPrompt(style, eventInfo), width |-> size.width,
                    height |-> size.height, style |-> style.id]
        fetch  == [ev |-> "fetch", style |-> style.id, generation |-> request,
                   request |-> WireRequest(adapter, request)]
    IN  (IF ab THEN <<>> ELSE <<fetch>>) \o (IF onUpdate THEN <<update>> ELSE <<>>)

\* the top of one loop iteration: onUpdate, then the prompt, then the
\* signal.aborted check, then the call to imageProvider.generate
iterationEffects(sel, idx, eventInfo, size, adapter, onUpdate, ab) ==
    LET style  == sel[idx + 1]
        update == [ev |-> "update", progress |-> idx + 1, total |-> Len(sel),
                   style |-> style.id, styleName |-> style.name]
        request == [prompt |-> buildPrompt(style, eventInfo), width |-> size.width,
                    height |-> size.height, style |-> style.id]
        fetch  == [ev |-> "fetch", style |-> style.id, generation |-> request,
                   request |-> WireRequest(adapter, request)]
    IN  (IF onUpdate THEN <<update>> ELSE <<>>) \o (IF ab THEN <<>> ELSE <<fetch>>)

\* a loop that a failed outcome ends, as an uncaught error would
runLoopStopsOnFailure(sel, idx, res, lg, eventInfo, size, adapter, dir, onUpdate, ab) ==
    IF idx >= Len(sel) \/ (res # <<>> /\ ~res[Len(res)].success)
    THEN [pc |-> "done", i |-> idx, results |-> res, log |-> lg,
          ret |-> buildResult(size, dir, res)]
    ELSE LET lg1 == lg \o iterationEffects(sel, idx, eventInfo, size, adapter, onUpdate, ab)
         IN  IF ab
             THEN [pc |-> "done", i |-> idx, results |-> res, log |-> lg1,
                   ret |-> buildResult(size, dir, res)]
             ELSE [pc |-> "await", i |-> idx, results |-> res, log |-> lg1,
                   ret |-> NoReturn]

\* a loop that never looks at signal.aborted
runLoopIgnoresSignal(sel, idx, res, lg, eventInfo, size, adapter, dir, onUpdate, ab) ==
    IF idx >= Len(sel)
    THEN [pc |-> "done", i |-> idx, results |-> res, log |-> lg,
          ret |-> buildResult(size, dir, res)]
    ELSE [pc |-> "await", i |-> idx, results |-> res,
          log |-> lg \o iterationEffects(sel, idx, eventInfo, size, adapter, onUpdate, FALSE),
          ret |-> NoReturn]

\* run the for loop from index idx until it awaits a provider call or ends
\* (i reached stylesToUse.length, or the break), then build the result
runLoop(sel, idx, res, lg, eventInfo, size, adapter, dir, onUpdate, ab) ==
    IF idx >= Len(sel)
    THEN [pc |-> "done", i |-> idx, results |-> res, log |-> lg,
          ret |-> buildResult(size, dir, res)]
    ELSE LET lg1 == lg \o iterationEffects(sel, idx, eventInfo, size, adapter, onUpdate, ab)
         IN  IF ab
             THEN [pc |-> "done", i |-> idx, results |-> res, log |-> lg1,
                   ret |-> buildResult(size, dir, res)]
             ELSE [pc |-> "await", i |-> idx, results |-> res, log |-> lg1,
                   ret |-> NoReturn]

Resume(next) ==
    /\ pc' = next.pc
    /\ i' = next.i
    /\ results' = next.results
    /\ log' = next.log
    /\ ret' = next.ret

\* execute(): from entry to the first await, or to an early return
Execute ==
    /\ pc = "idle"
    /\ LET size == sizeConfig(config, params.size)
           sel  == selectStyles(config, params.styles)
           providerName == OrElse(params.provider, config.defaultProvider)
       IN  IF Len(sel) = 0
           THEN /\ pc' = "done"
                /\ ret' = noStylesResult
                /\ stylesToUse' = sel
                /\ UNCHANGED <<imageProvider, i, results, dirs, files, log>>
           ELSE \E ctorModel \in GeminiCtorDefaults :
                LET adapter == getProvider(providerName, config, env, ctorModel)
                    lg == <<[ev |-> "getProvider", name |-> providerName]>>
                IN  IF adapter = Null
                    THEN /\ pc' = "done"
                         /\ ret' = noProviderResult(providerName)
                         /\ stylesToUse' = sel
                         /\ imageProvider' = adapter
                         /\ log' = lg
                         /\ UNCHANGED <<i, results, dirs, files>>
                    ELSE /\ stylesToUse' = sel
                         /\ imageProvider' = adapter
                         /\ dirs' = dirs \cup {outputDirOf}
                         /\ Resume(runLoop(sel, 0, <<>>,
                                Append(lg, [ev |-> "mkdir", path |-> outputDirOf]),
                                params.eventInfo, size, adapter, outputDirOf,
                                hasOnUpdate, aborted))
                         /\ UNCHANGED files
    /\ UNCHANGED <<env, config, params, hasOnUpdate, aborted, msWidth, msHeight, msSize,
                   clock, inv, fslog>>

\* the outcome of the try block once the provider call has settled with
\* resp: generate() threw, or writeFileSync threw (writeOk false), or the
\* file was written
settled(style, adapter, dir, resp, writeOk) ==
    LET g == generate(adapter, resp)
    IN  IF g.threw
        THEN [wrote |-> FALSE, outcome |-> failedOutcome(style, g.message)]
        ELSE IF ~writeOk
        THEN [wrote |-> FALSE,
              outcome |-> failedOutcome(style, "ENOSPC: no space left on device, write")]
        ELSE [wrote |-> TRUE, path |-> outputPath(dir, style, g.image),
              data |-> g.image.data,
              outcome |-> successOutcome(style, outputPath(dir, style, g.image), g.image)]

\* the awaited provider call settles: the rest of the iteration, then the
\* loop goes on to the next await or to the return
Settle ==
    /\ pc = "await"
    /\ \E resp \in Responses, writeOk \in BOOLEAN :
        LET style == stylesToUse[i + 1]
            size  == sizeConfig(config, params.size)
            s     == settled(style, imageProvider, outputDirOf, resp, writeOk)
            lg    == IF s.wrote
                     THEN log \o <<[ev |-> "write", path |-> s.path],
                                   [ev |-> "push", style |-> style.id]>>
                     ELSE Append(log, [ev |-> "push", style |-> style.id])
        IN  /\ files' = IF s.wrote
                        THEN {f \in files : f.path # s.path}
                             \cup {[path |-> s.path, data |-> s.data]}
                        ELSE files
            /\ Resume(runLoop(stylesToUse, i + 1, Append(results, s.outcome), lg,
                              params.eventInfo, size, imageProvider, outputDirOf,
                              hasOnUpdate, aborted))
    /\ UNCHANGED <<env, config, params, hasOnUpdate, aborted, stylesToUse, imageProvider,
                   dirs, msWidth, msHeight, msSize, clock, inv, fslog>>

\* the caller aborts the signal, before the call or while it runs
Abort ==
    /\ pc # "done"
    /\ ~aborted
    /\ aborted' = TRUE
    /\ UNCHANGED <<env, config, params, hasOnUpdate, pc, stylesToUse, imageProvider,
                   i, results, dirs, files, log, ret, msWidth, msHeight, msSize,
                   clock, inv, fslog>>

(* --------------------------- the tool's inputs -------------------------- *)

StyleIdArgs == {styles[k].id : k \in 1..Len(styles)} \cup {"watercolor"}

SeqsUpTo(S, n) == UNION {[1..k -> S] : k \in 0..n}

\* `styles`: omitted, or a list of at most MaxReq ids
StyleArgs ==
    {[present |-> FALSE, ids |-> <<>>]}
    \cup {[present |-> TRUE, ids |-> ids] : ids \in SeqsUpTo(StyleIdArgs, MaxReq)}

\* `provider`: omitted, a registry id, or an id the registry does not hold
ProviderArgs == {Undefined} \cup ProviderIds \cup {"dalle"}

SizeArgs == {Undefined, "instagram", "facebook", "poster"}

IdleState ==
    /\ pc = "idle"
    /\ aborted = FALSE
    /\ stylesToUse = <<>>
    /\ imageProvider = Null
    /\ i = 0
    /\ results = <<>>
    /\ dirs = {}
    /\ files = {}
    /\ log = <<>>
    /\ ret = NoReturn
    /\ clock = 0
    /\ inv = <<>>
    /\ fslog = <<>>

\* the extension as shipped: defaultConfig, each credential set or unset,
\* called by a host that passes onUpdate
Init ==
    /\ env \in [EnvVars -> {Undefined, "sk-key"}]
    /\ config = defaultConfig
    /\ params \in [eventInfo : {<<"Outdoor concert">>}, styles : StyleArgs,
                   size : {Undefined}, provider : ProviderArgs]
    /\ hasOnUpdate = TRUE
    /\ IdleState
    /\ msWidth = 1 /\ msHeight = 1 /\ msSize = Undefined

Next == Execute \/ Settle \/ Abort

Spec == Init /\ [][Next]_vars

\* the registry on its own: any `enabled` flags, each credential unset,
\* empty or set, one style requested, any size, with or without onUpdate
InitRegistry ==
    /\ env \in [EnvVars -> EnvValues]
    /\ config \in ConfigsWithEnabled
    /\ params \in [eventInfo : {<<"Outdoor concert">>},
                   styles : {[present |-> TRUE, ids |-> <<"tjc-style">>]},
                   size : SizeArgs, provider : ProviderArgs \cup {""}]
    /\ hasOnUpdate \in BOOLEAN
    /\ IdleState
    /\ msWidth = 1 /\ msHeight = 1 /\ msSize = Undefined

SpecRegistry == InitRegistry /\ [][Next]_vars

\* the size argument on its own: every key of config.sizes, omitted, empty,
\* an unknown key and the names of Object.prototype's properties
SizeKeyArgs == DOMAIN sizes \cup {Undefined, "", "poster"} \cup InheritedKeys

InitSize ==
    /\ env = [v \in EnvVars |-> "sk-key"]
    /\ config = defaultConfig
    /\ params \in [eventInfo : {<<"Outdoor concert">>},
                   styles : {[present |-> TRUE, ids |-> <<"tjc-style">>],
                             [present |-> TRUE, ids |-> <<"tjc-style", "creative-free">>]},
                   size : SizeKeyArgs, provider : {Undefined, "openai"}]
    /\ hasOnUpdate = TRUE
    /\ IdleState
    /\ msWidth = 1 /\ msHeight = 1 /\ msSize = Undefined

SpecSize == InitSize /\ [][Next]_vars

\* eventInfo on its own: up to MaxInfo tokens of text, `$`, `&` and `'`
InfoTokens == {"Concert at 3pm", "$", "&", "'"}

InitPrompt ==
    /\ env = [v \in EnvVars |-> "sk-key"]
    /\ config = defaultConfig
    /\ params \in [eventInfo : SeqsUpTo(InfoTokens, MaxInfo),
                   styles : {[present |-> TRUE, ids |-> <<"tjc-style">>],
                             [present |-> TRUE, ids |-> <<"christian-general", "creative-free">>]},
                   size : {Undefined}, provider : {Undefined, "grok"}]
    /\ hasOnUpdate = TRUE
    /\ IdleState
    /\ msWidth = 1 /\ msHeight = 1 /\ msSize = Undefined

SpecPrompt == InitPrompt /\ [][Next]_vars

\* mapSize on its own
SampleDims == {67, 100, 630, 1000, 1080, 1200, 1500, 1920, 2480, 3000, 3508}

Dims == 1..MaxDim \cup SampleDims

InitMapSize ==
    /\ env = [v \in EnvVars |-> Undefined]
    /\ config = defaultConfig
    /\ params = [eventInfo |-> <<"Outdoor concert">>, styles |-> [present |-> FALSE, ids |-> <<>>],
                 size |-> Undefined, provider |-> Undefined]
    /\ hasOnUpdate = FALSE
    /\ IdleState
    /\ msWidth \in Dims /\ msHeight \in Dims /\ msSize = Undefined

ApplyMapSize ==
    /\ msSize = Undefined
    /\ msSize' = mapSize(msWidth, msHeight)
    /\ UNCHANGED <<env, config, params, hasOnUpdate, aborted, pc, stylesToUse,
                   imageProvider, i, results, dirs, files, log, ret, msWidth, msHeight,
                   clock, inv, fslog>>

NextMapSize == ApplyMapSize

SpecMapSize == InitMapSize /\ [][NextMapSize]_vars

(* ------------------- several invocations side by side ------------------ *)

\* The host may call execute() again while an earlier call awaits its
\* provider: each call has its own locals, and all of them share the clock
\* and the file system.  An execute() runs without interruption between two
\* awaits, so the clock may advance between any two steps below, or not.
MaxClock == 2

Invocations == {1, 2}

IdleInvocation(p) ==
    [pc |-> "idle", params |-> p, stylesToUse |-> <<>>, imageProvider |-> Null,
     outputDir |-> Undefined, i |-> 0, results |-> <<>>]

\* execute() of invocation k: from entry to the first await or early return
ExecuteOf(k) ==
    /\ inv[k].pc = "idle"
    /\ LET me   == inv[k]
           size == sizeConfig(config, me.params.size)
           sel  == selectStyles(config, me.params.styles)
           providerName == OrElse(me.params.provider, config.defaultProvider)
       IN  IF Len(sel) = 0
           THEN /\ inv' = [inv EXCEPT ![k].pc = "done"]
                /\ UNCHANGED <<dirs, fslog>>
           ELSE \E ctorModel \in GeminiCtorDefaults :
                LET adapter == getProvider(providerName, config, env, ctorModel)
                    outputDir == outputDirOf
                    next == runLoop(sel, 0, <<>>, <<>>, me.params.eventInfo, size,
                                    adapter, outputDir, FALSE, FALSE)
                IN  IF adapter = Null
                    THEN /\ inv' = [inv EXCEPT ![k].pc = "done", ![k].stylesToUse = sel]
                         /\ UNCHANGED <<dirs, fslog>>
                    ELSE /\ dirs' = dirs \cup {outputDir}
                         /\ fslog' = Append(fslog, [op |-> "mkdir", by |-> k,
                                                    path |-> outputDir])
                         /\ inv' = [inv EXCEPT ![k].pc = next.pc,
                                               ![k].stylesToUse = sel,
                                               ![k].imageProvider = adapter,
                                               ![k].outputDir = outputDir,
                                               ![k].i = next.i,
                                               ![k].results = next.results]
    /\ UNCHANGED <<env, config, params, hasOnUpdate, aborted, pc, stylesToUse,
                   imageProvider, i, results, files, log, ret, msWidth, msHeight,
                   msSize, clock>>

\* the provider call awaited by invocation k settles
SettleOf(k) ==
    /\ inv[k].pc = "await"
    /\ \E resp \in Responses, writeOk \in BOOLEAN :
        LET me    == inv[k]
            style == me.stylesToUse[me.i + 1]
            size  == sizeConfig(config, me.params.size)
            s     == settled(style, me.imageProvider, me.outputDir, resp, writeOk)
            next  == runLoop(me.stylesToUse, me.i + 1, Append(me.results, s.outcome),
                             <<>>, me.params.eventInfo, size, me.imageProvider,
                             me.outputDir, FALSE, FALSE)
        IN  /\ files' = IF s.wrote
                        THEN {f \in files : f.path # s.path}
                             \cup {[path |-> s.path, data |-> s.data]}
                        ELSE files
            /\ fslog' = IF s.wrote
                        THEN Append(fslog, [op |-> "write", by |-> k, path |-> s.path])
                        ELSE fslog
            /\ inv' = [inv EXCEPT ![k].pc = next.pc, ![k].i = next.i,
                                  ![k].results = next.results]
    /\ UNCHANGED <<env, config, params, hasOnUpdate, aborted, pc, stylesToUse,
                   imageProvider, i, results, dirs, log, ret, msWidth, msHeight,
                   msSize, clock>>

\* a millisecond passes
Tick ==
    /\ clock < MaxClock
    /\ clock' = clock + 1
    /\ UNCHANGED <<env, config, params, hasOnUpdate, aborted, pc, stylesToUse,
                   imageProvider, i, results, dirs, files, log, ret, msWidth, msHeight,
                   msSize, inv, fslog>>

\* the arguments of each call: one style, two, or none that matches, with a
\* provider that is registered or not
ConcurrentParams ==
    [eventInfo : {<<"Outdoor concert">>},
     styles : {[present |-> TRUE, ids |-> <<"tjc-style">>],
               [present |-> TRUE, ids |-> <<"tjc-style", "creative-free">>],
               [present |-> TRUE, ids |-> <<"watercolor">>]},
     size : {Undefined}, provider : {"openai", "dalle"}]

InitConcurrent ==
    /\ env = [v \in EnvVars |-> "sk-key"]
    /\ config = defaultConfig
    /\ params = [eventInfo |-> <<"Outdoor concert">>,
                 styles |-> [present |-> FALSE, ids |-> <<>>],
                 size |-> Undefined, provider |-> Undefined]
    /\ hasOnUpdate = FALSE
    /\ pc = "idle" /\ aborted = FALSE /\ stylesToUse = <<>> /\ imageProvider = Null
    /\ i = 0 /\ results = <<>> /\ dirs = {} /\ files = {} /\ log = <<>>
    /\ ret = NoReturn
    /\ msWidth = 1 /\ msHeight = 1 /\ msSize = Undefined
    /\ clock = 0
    /\ inv \in [Invocations -> {IdleInvocation(p) : p \in ConcurrentParams}]
    /\ fslog = <<>>

NextConcurrent ==
    \/ \E k \in Invocations : ExecuteOf(k)
    \/ \E k \in Invocations : SettleOf(k)
    \/ Tick

SpecConcurrent == InitConcurrent /\ [][NextConcurrent]_vars

(* ------------------------------ the claims ------------------------------ *)

updates == SelectSeq(log, LAMBDA e : e.ev = "update")
fetches == SelectSeq(log, LAMBDA e : e.ev = "fetch")
writes  == SelectSeq(log, LAMBDA e : e.ev = "write")

styleIds(s) == Map(s, LAMBDA r : r.style)
selectedIds == Map(stylesToUse, LAMBDA s : s.id)
CatalogIds == {config.styles[k].id : k \in 1..Len(config.styles)}

IsPrefix(a, b) == Len(a) <= Len(b) /\ \A k \in 1..Len(a) : a[k] = b[k]
NoDuplicates(s) == \A j, k \in 1..Len(s) : j # k => s[j] # s[k]

\* the invocation got past both early returns
LoopReached == pc # "idle" /\ imageProvider # Null

\* the messages generate() can throw for an adapter, and writeFileSync's
ErrorTexts(adapter) ==
    {generate(adapter, r).message : r \in {x \in Responses : generate(adapter, x).threw}}
    \cup {"ENOSPC: no space left on device, write"}

\* C1: without cancellation a failed provider call is recorded as the failed
\* outcome of its style, carrying the error's message, and the loop goes on:
\* the next style's call is made, and at the end every selected style has
\* exactly one outcome.
C1_FailureIsIsolated ==
    (LoopReached /\ ~aborted) =>
        /\ \A k \in 1..Len(results) :
              /\ results[k].style = selectedIds[k]
              /\ ~results[k].success =>
                    /\ results[k].error \in ErrorTexts(imageProvider)
                    /\ k < Len(stylesToUse) =>
                          /\ Len(fetches) > k
                          /\ fetches[k + 1].style = selectedIds[k + 1]
        /\ pc = "done" => /\ styleIds(results) = selectedIds
                          /\ Len(fetches) = Len(stylesToUse)

\* a first call that failed, followed by a second that succeeded
C1_Witness ==
    /\ pc = "done" /\ ~aborted /\ Len(results) = 2
    /\ ~results[1].success /\ results[2].success
    /\ results[1].error = "Grok API error: 500 - upstream failed"

\* C2: the outcomes' style ids are a duplicate-free prefix of the selected
\* styles; on return there is one outcome per provider call started, and never
\* more outcomes than styles requested (or, with `styles` omitted, than the
\* catalog holds).
C2_OutcomesArePrefix ==
    LoopReached =>
        /\ IsPrefix(styleIds(results), selectedIds)
        /\ NoDuplicates(styleIds(results))
        /\ pc = "done" => Len(results) = Len(fetches)
        /\ Len(results) <= (IF params.styles.present THEN Len(params.styles.ids)
                            ELSE Len(config.styles))

\* two styles requested in the reverse of catalog order, the signal aborted
\* while the first call was in flight
C2_Witness ==
    /\ pc = "done" /\ aborted
    /\ params.styles.ids = <<"creative-free", "tjc-style">>
    /\ styleIds(results) = <<"tjc-style">>

\* C3: a call in flight always ends in an outcome for its style, aborted or
\* not; and a handler run that starts with the signal aborted starts no call,
\* writes no file, records no outcome for a style not yet started, and
\* returns the normal result over the outcomes so far.
C3_CancellationBetweenCalls ==
    [][ /\ (pc = "await" /\ aborted' = aborted) =>
              /\ Len(results') = Len(results) + 1
              /\ results'[Len(results')].style = selectedIds[i + 1]
        /\ (aborted /\ pc # "done") =>
              /\ pc' = "done"
              /\ fetches' = fetches
              /\ Len(results') = Len(results) + (IF pc = "await" THEN 1 ELSE 0)
              /\ \A f \in files' \ files : pc = "await" /\ f.path = results'[Len(results')].path
              /\ imageProvider' # Null =>
                    /\ "outputDir" \in DOMAIN ret'.details
                    /\ Len(ret'.details.results) = Len(results')
      ]_vars

\* three styles, the signal aborted while the first call was in flight
C3_Witness ==
    /\ pc = "done" /\ aborted /\ Len(stylesToUse) = 3
    /\ Len(results) = 1 /\ Len(fetches) = 1
    /\ Len(ret.details.results) = 1

\* C4: the progress notifications are those of the selected styles in order,
\* progress = index + 1 and total = the number of selected styles, each style
\* notified once and before its provider call starts, and the outcomes follow
\* the order of the notifications.
C4_ProgressOrder ==
    (LoopReached /\ hasOnUpdate) =>
             /\ \A k \in 1..Len(updates) :
                    /\ updates[k].progress = k
                    /\ updates[k].total = Len(stylesToUse)
                    /\ updates[k].style = selectedIds[k]
             /\ \A j \in 1..Len(log) :
                    log[j].ev = "fetch" =>
                        \E h \in 1..(j - 1) : /\ log[h].ev = "update"
                                              /\ log[h].style = log[j].style
             /\ IsPrefix(styleIds(results), styleIds(updates))
             /\ Len(updates) \in {Len(results), Len(results) + 1}
             /\ (pc = "done" /\ ~aborted) => Len(updates) = Len(stylesToUse)

\* cancelled before the second call: two notifications, one outcome
C4_Witness ==
    /\ pc = "done" /\ hasOnUpdate /\ aborted
    /\ Len(updates) = 2 /\ Len(results) = 1 /\ Len(fetches) = 1

\* C5: a `styles` list that is empty or names no catalog style returns the
\* "no matching styles" error alone, and nothing else happened: no provider
\* resolved or called, no directory, no file, no notification.
C5_NoMatchingStyles ==
    (params.styles.present /\ Range(params.styles.ids) \cap CatalogIds = {}) =>
        /\ log = <<>> /\ dirs = {} /\ files = {} /\ results = <<>>
        /\ imageProvider = Null
        /\ pc \in {"idle", "done"}
        /\ pc = "done" => /\ ret.details = [error |-> "No matching styles found"]
                          /\ Len(ret.content) = 1
                          /\ ret.content[1].type = "text"

\* returned for a list of unknown ids while a provider was configured
C5_Witness ==
    /\ pc = "done" /\ params.styles.ids = <<"watercolor", "watercolor">>
    /\ params.provider = "grok" /\ env["GROK_API_KEY"] = "sk-key"
    /\ ret = noStylesResult

CatalogIndex(id) == CHOOSE k \in 1..Len(config.styles) : config.styles[k].id = id

\* C7: with `styles` omitted the selection is the catalog; otherwise it holds
\* exactly the catalog styles whose id occurs in the request, once each, in
\* catalog order; selecting again with the selection's ids changes nothing.
C7_SelectionInCatalogOrder ==
    pc # "idle" =>
        /\ ~params.styles.present => stylesToUse = config.styles
        /\ params.styles.present =>
              /\ Range(selectedIds) = Range(params.styles.ids) \cap CatalogIds
              /\ \A j, k \in 1..Len(stylesToUse) :
                    j < k => CatalogIndex(selectedIds[j]) < CatalogIndex(selectedIds[k])
              /\ \A k \in 1..Len(stylesToUse) :
                    stylesToUse[k] = config.styles[CatalogIndex(selectedIds[k])]
        /\ selectStyles(config, [present |-> TRUE, ids |-> selectedIds]) = stylesToUse
        /\ Range(params.styles.ids) = {"creative-free", "tjc-style"} =>
              selectedIds = <<"tjc-style", "creative-free">>

\* the caller asked for creative-free before tjc-style
C7_Witness ==
    /\ pc # "idle"
    /\ params.styles.ids = <<"creative-free", "tjc-style">>
    /\ selectedIds = <<"tjc-style", "creative-free">>

\* requestedProvider || config.defaultProvider
providerName == OrElse(params.provider, config.defaultProvider)

\* execute() got as far as getProvider
ProviderAsked == pc # "idle" /\ stylesToUse # <<>>

\* the "provider unavailable" return, and nothing else done
ProviderUnavailable ==
    /\ imageProvider = Null
    /\ pc = "done"
    /\ ret.details = [error |-> "Provider " \o providerName \o " not available"]
    /\ Len(ret.content) = 1
    /\ ret.content[1].type = "text"
    /\ fetches = <<>> /\ dirs = {} /\ files = {} /\ results = <<>>

\* C6 as stated: no descriptor, enabled = false or the descriptor's
\* environment variable unset gives "provider unavailable" with no call, no
\* directory and no outcome; an enabled descriptor with a credential in that
\* variable resolves.
C6_AsStated ==
    ProviderAsked =>
        /\ ( \/ providerName \notin DOMAIN config.providers
             \/ ~config.providers[providerName].enabled
             \/ env[config.providers[providerName].apiKeyEnv] = Undefined )
           => ProviderUnavailable
        /\ ( /\ providerName \in DOMAIN config.providers
             /\ config.providers[providerName].enabled
             /\ Truthy(env[config.providers[providerName].apiKeyEnv]) )
           => imageProvider # Null

\* the environment variables a provider's factory reads
CredentialVars(name) ==
    {config.providers[name].apiKeyEnv} \cup (IF name = "grok" THEN {"XAI_API_KEY"} ELSE {})

\* C6, amended: the credential is absent when none of the variables the
\* provider reads (for grok, GROK_API_KEY and XAI_API_KEY) holds a non-empty
\* value.
C6_ProviderUnavailable ==
    ProviderAsked =>
        IF \/ providerName \notin DOMAIN config.providers
           \/ ~config.providers[providerName].enabled
           \/ \A v \in CredentialVars(providerName) : ~Truthy(env[v])
        THEN ProviderUnavailable
        ELSE /\ imageProvider # Null
             /\ imageProvider.name = providerName
             /\ Truthy(imageProvider.apiKey)
             /\ imageProvider.apiKey \in {env[v] : v \in CredentialVars(providerName)}

\* the credential is set, the descriptor is disabled
C6_Witness ==
    /\ pc = "done" /\ params.provider = "openai"
    /\ env["OPENAI_API_KEY"] = "sk-key"
    /\ ~config.providers["openai"].enabled
    /\ ProviderUnavailable

\* C8: the adapter resolved for a registry provider holds the credential read
\* from the environment and the descriptor's defaultModel, and that model id
\* is the one in every request it sends.
C8_AdapterUsesDefaultModel ==
    LoopReached =>
        /\ imageProvider.apiKey \in {env[v] : v \in EnvVars}
        /\ imageProvider.model = config.providers[providerName].defaultModel
        /\ \A k \in 1..Len(fetches) :
              fetches[k].request.model
                  = config.providers[fetches[k].request.provider].defaultModel

imageBlocksOf(content) == SelectSeq(content, LAMBDA b : b.type = "image")

\* C9: the returned content is the summary followed by one image block per
\* successful outcome, in order, with its base64 data and mime type; the
\* details count the successful and the failed outcomes, and details.results
\* hold no image data.
C9_ResultShape ==
    (LoopReached /\ pc = "done") =>
        LET successful == SelectSeq(results, LAMBDA r : r.success)
            failed     == SelectSeq(results, LAMBDA r : ~r.success)
        IN  /\ ret.content[1].type = "text"
            /\ \A k \in 2..Len(ret.content) : ret.content[k].type = "image"
            /\ Len(ret.content) = 1 + Len(successful)
            /\ \A k \in 1..Len(successful) :
                  k + 1 <= Len(ret.content) =>
                      /\ ret.content[k + 1].data = successful[k].imageData
                      /\ ret.content[k + 1].mimeType = successful[k].mimeType
            /\ ret.details.successful = Len(successful)
            /\ ret.details.successful = Len(imageBlocksOf(ret.content))
            /\ ret.details.failed = Len(failed)
            /\ ret.details.successful + ret.details.failed = Len(results)
            /\ Len(ret.details.results) = Len(results)
            /\ \A k \in 1..Len(results) :
                  "imageData" \notin DOMAIN ret.details.results[k]

\* C10: mapSize answers 1792x1024 exactly when width/height > 1.5,
\* 1024x1792 exactly when width/height < 0.67, and 1024x1024 otherwise; a
\* ratio of exactly 1.5 is square.
C10_MapSizeBuckets ==
    msSize # Undefined =>
        /\ msSize \in {"1792x1024", "1024x1792", "1024x1024"}
        /\ msSize = "1792x1024" <=> 2 * msWidth > 3 * msHeight
        /\ msSize = "1024x1792" <=> 100 * msWidth < 67 * msHeight
        /\ (2 * msWidth = 3 * msHeight) => msSize = "1024x1024"
        /\ (100 * msWidth = 67 * msHeight) => msSize = "1024x1024"
        /\ (msWidth = 3000 /\ msHeight = 1000) => msSize = "1792x1024"
        /\ (msWidth = 1000 /\ msHeight = 3000) => msSize = "1024x1792"
        /\ (msWidth = 1080 /\ msHeight = 1080) => msSize = "1024x1024"

\* 1500x1000, a ratio of exactly 1.5
C10_Witness ==
    msWidth = 1500 /\ msHeight = 1000 /\ msSize = "1024x1024"

\* the SizeConfig the size argument stands for: its entry in config.sizes,
\* config.defaultSize when it is no key of config.sizes
sizeMeant ==
    IF params.size \in DOMAIN config.sizes THEN config.sizes[params.size]
    ELSE config.defaultSize

\* C11: the width and height of every provider request, and the size and
\* size name of the result, are those of the size argument's entry in
\* config.sizes, and those of the default size (A4 2480x3508) for every
\* argument that is no key of config.sizes.
C11_SizeResolution ==
    LoopReached =>
        /\ \A k \in 1..Len(fetches) :
              /\ fetches[k].generation.width = sizeMeant.width
              /\ fetches[k].generation.height = sizeMeant.height
        /\ pc = "done" =>
              /\ ret.details.size = sizeMeant
              /\ ret.content[1].text.sizeName = sizeMeant.name

\* a template with its placeholder token replaced by the tokens of info,
\* unchanged
withInfoVerbatim(template, info) ==
    LET at == CHOOSE k \in 1..Len(template) : template[k] = "{eventInfo}"
    IN  SubSeq(template, 1, at - 1) \o info \o SubSeq(template, at + 1, Len(template))

\* C12: the prompt of every provider request is the style's template with
\* its one placeholder replaced by the eventInfo text as it was given,
\* whatever characters it holds, and nothing else changed.
C12_PromptIsLiteral ==
    LoopReached =>
        \A k \in 1..Len(fetches) :
            /\ Cardinality({j \in 1..Len(promptTemplate(stylesToUse[k])) :
                             promptTemplate(stylesToUse[k])[j] = "{eventInfo}"}) = 1
            /\ fetches[k].generation.prompt
                   = withInfoVerbatim(promptTemplate(stylesToUse[k]), params.eventInfo)
            /\ fetches[k].request.prompt = fetches[k].generation.prompt

mkdirsOf(k) == SelectSeq(fslog, LAMBDA e : e.op = "mkdir" /\ e.by = k)

CreatedDirectory(k) == inv[k].outputDir # Undefined

\* C13: two distinct invocations that reached directory creation have
\* distinct output directories, whether they overlap or start at the same
\* clock reading, so that no writeFileSync call ever names the path of an
\* earlier one and no directory holds files of two invocations; an
\* invocation calls mkdirSync exactly once if it reaches the loop and never
\* otherwise, and its successful styles' files have pairwise distinct paths.
C13_DistinctDirectories ==
    /\ \A a, b \in Invocations :
        (a # b /\ CreatedDirectory(a) /\ CreatedDirectory(b))
            => inv[a].outputDir # inv[b].outputDir
    /\ \A m, n \in 1..Len(fslog) :
        (m < n /\ fslog[m].op = "write" /\ fslog[n].op = "write")
            => fslog[m].path # fslog[n].path
    /\ \A k \in Invocations :
        Len(mkdirsOf(k)) = IF CreatedDirectory(k) THEN 1 ELSE 0

====
